---- MODULE Spec2Model ----
(***************************************************************************)
(* Teacher Daily Log (src/teacher_project/main.py).                        *)
(*                                                                         *)
(* The session state of the Streamlit script (teacher_data,                *)
(* ongoing_record, missing_fields), the text area and the click on Submit   *)
(* that awaits its script run, the wall clock, the place where a script    *)
(* run waits, and what the script runs put on the page.  A script run is    *)
(* one step up to the place where it waits: a run that finalizes a record   *)
(* appends it (line 201) and waits in llm.invoke (line 212); the rest of    *)
(* the run (lines 212-234) is a second step, in which Streamlit may end     *)
(* the run before the reset of lines 224-234.                               *)
(*                                                                         *)
(* A text is a sequence of lines, a line a sequence of words; the string   *)
(* the program sees is the words of a line joined by one blank and the     *)
(* lines joined by a newline.  Optional values (Python's None or a value)  *)
(* are <<>> for None and <<v>> for the value v.  A calendar date is        *)
(* <<year, month, day>>, which str() prints as YYYY-MM-DD.  A string of     *)
(* several words (the topics) is the sequence of its words.                *)
(***************************************************************************)
EXTENDS Integers, Sequences, FiniteSets, TLC

VARIABLES
    api_key,          \* GOOGLE_API_KEY is in the environment (lines 18-19)
    session_keys,     \* the keys that st.session_state holds
    teacher_data,     \* st.session_state["teacher_data"]
    ongoing_record,   \* st.session_state["ongoing_record"]
    missing_fields,   \* st.session_state["missing_fields"]
    user_input,       \* the content of the text area (line 254)
    submit_clicked,   \* Submit was clicked and the script has not run for it yet
    now,              \* the wall clock: [day, hour]
    pc,               \* where the script run waits: "llm.invoke" (line 212), or "idle"
    page              \* what the last script run displayed

vars == <<api_key, session_keys, teacher_data, ongoing_record, missing_fields,
          user_input, submit_clicked, now, pc, page>>

----------------------------------------------------------------------------
(* Bounds *)

MaxLines == 1      \* lines in one submitted text
MaxRecords == 2    \* finalized records in one session
MaxDays == 2       \* calendar days the session spans

----------------------------------------------------------------------------
(* Optional values *)

None == <<>>
Some(v) == <<v>>
IsNone(x) == x = <<>>

----------------------------------------------------------------------------
(* The vocabulary of the submitted texts *)

NL == "\n"

LineFull   == <<"Teacher", "arrived", "at", "10:40,", "left", "at", "12:00,",
                "studied", "AI", "for", "January", "10th.">>
LineFriday == <<"It's", "Friday.", "Muhammad", "18,", "Abubakar", "15,", "Hafsa", "20">>
LineCame   == <<"came", "at", "09:15,", "Hafsa:", "7">>
LineFri    == <<"friday">>
LineOn     == <<"on", "holiday.">>
LineBlank  == <<>>
LineLate   == <<"departed", "at", "13:30,", "learned", "math">>

\* the lines of the texts of a session; the text of no line is the blank one
Lines == {LineFull, LineFriday, LineCame, LineFri, LineOn}

RECURSIVE SeqsUpTo(_, _)
SeqsUpTo(S, n) ==
    IF n = 0 THEN {<<>>}
    ELSE LET shorter == SeqsUpTo(S, n - 1)
         IN  shorter \cup {Append(s, x) : s \in shorter, x \in S}

Texts == SeqsUpTo(Lines, MaxLines)

\* the texts of a single turn: a line longer, with empty lines, and with a
\* second departure and a second topic
TurnLines == Lines \cup {LineBlank, LineLate}
TurnTexts == SeqsUpTo(TurnLines, MaxLines + 1)

----------------------------------------------------------------------------
(* Characters of the vocabulary's words.  TLA+ strings are atomic, so what  *)
(* str.lower() and the regular expressions' character classes do to a word  *)
(* is tabulated for the words of the vocabulary.                            *)

\* str.lower() of one word (line 132)
Lower(w) ==
    CASE w = "Teacher"  -> "teacher"
      [] w = "AI"       -> "ai"
      [] w = "January"  -> "january"
      [] w = "It's"     -> "it's"
      [] w = "Friday."  -> "friday."
      [] w = "Muhammad" -> "muhammad"
      [] w = "Abubakar" -> "abubakar"
      [] w = "Hafsa"    -> "hafsa"
      [] w = "Hafsa:"   -> "hafsa:"
      [] OTHER          -> w

\* "friday" in w, for a lower-cased word (line 159)
ContainsFriday(w) == w \in {"friday", "friday."}

\* the match of (\d{1,2}:\d{2}) at the start of a word, if any (lines 163, 168)
TimePrefix(w) ==
    CASE w = "10:40," -> Some("10:40")
      [] w = "12:00," -> Some("12:00")
      [] w = "09:15," -> Some("09:15")
      [] w = "13:30," -> Some("13:30")
      [] OTHER        -> None

\* the match of (\d{1,2}) at the start of a word, if any (line 181)
DigitPrefix(w) ==
    CASE w = "18,"    -> Some("18")
      [] w = "15,"    -> Some("15")
      [] w = "20"     -> Some("20")
      [] w = "7"      -> Some("7")
      [] w = "10:40," -> Some("10")
      [] w = "12:00," -> Some("12")
      [] w = "09:15," -> Some("09")
      [] w = "13:30," -> Some("13")
      [] w = "10th."  -> Some("10")
      [] OTHER        -> None

\* the word ends with the keyword: no word of the vocabulary has a keyword
\* as a proper suffix
EndsWith(w, kw) == w = kw

\* the word ends with the child's name followed by zero or more colons
\* (line 181: {child_name}\s*[:]*)
EndsWithName(w, child) ==
    \/ EndsWith(w, child)
    \/ (child = "hafsa" /\ w = "hafsa:")

\* the longest prefix of a word made of [\w\-,] characters (line 140)
ClassPrefix(w) ==
    CASE w = "10:40,"   -> "10"
      [] w = "12:00,"   -> "12"
      [] w = "09:15,"   -> "09"
      [] w = "13:30,"   -> "13"
      [] w = "10th."    -> "10th"
      [] w = "It's"     -> "It"
      [] w = "Friday."  -> "Friday"
      [] w = "friday."  -> "friday"
      [] w = "Hafsa:"   -> "Hafsa"
      [] w = "holiday." -> "holiday"
      [] OTHER          -> w

\* the word ends with "for" or "on", in any case (line 140, re.IGNORECASE)
EndsForOn(w) == EndsWith(Lower(w), "for") \/ EndsWith(Lower(w), "on")

----------------------------------------------------------------------------
(* The text as the regular expressions read it *)

RECURSIVE Join(_)
\* the lines joined by newlines, as one sequence of words and NL marks
Join(text) ==
    IF Len(text) = 0 THEN <<>>
    ELSE IF Len(text) = 1 THEN text[1]
    ELSE text[1] \o <<NL>> \o Join(Tail(text))

\* the words alone: \s+ and \s* match blanks and newlines alike
WordsOf(text) == SelectSeq(Join(text), LAMBDA w : w # NL)

LowerSeq(ws) == [i \in 1..Len(ws) |-> IF ws[i] = NL THEN NL ELSE Lower(ws[i])]

\* user_input.strip() is empty (line 257)
IsBlank(text) == Len(WordsOf(text)) = 0

Indexes(ws, Hit(_, _)) == SelectSeq([i \in 1..Len(ws) |-> i], LAMBDA i : Hit(ws, i))

\* re.findall(r"(?:k1|k2)\s+at\s+(\d{1,2}:\d{2})", lower_text): lines 163, 168
TimeHit(ws, i, k1, k2) ==
    /\ i + 2 <= Len(ws)
    /\ (EndsWith(ws[i], k1) \/ EndsWith(ws[i], k2))
    /\ ws[i + 1] = "at"
    /\ ~IsNone(TimePrefix(ws[i + 2]))

FindTimes(ws, k1, k2) ==
    LET hits == Indexes(ws, LAMBDA s, i : TimeHit(s, i, k1, k2))
    IN  [k \in 1..Len(hits) |-> TimePrefix(ws[hits[k] + 2])[1]]

\* parse_mark(child_name): re.findall(rf"{child_name}\s*[:]*\s*(\d{{1,2}})",
\* lower_text), the last match or None (lines 180-182)
MarkHit(ws, i, child) ==
    /\ i + 1 <= Len(ws)
    /\ EndsWithName(ws[i], child)
    /\ ~IsNone(DigitPrefix(ws[i + 1]))

parse_mark(ws, child) ==
    LET hits == Indexes(ws, LAMBDA s, i : MarkHit(s, i, child))
    IN  IF Len(hits) = 0 THEN None ELSE DigitPrefix(ws[hits[Len(hits)] + 1])

\* re.search(r"(?:studied|learned)\s+(.*)", lower_text): the first keyword
\* that something follows; \s+ runs over the newlines after it and (.*) takes
\* the rest of that line (line 173).  js is the joined text, with NL marks.
TopicHit(js, i) ==
    /\ i + 1 <= Len(js)
    /\ (EndsWith(js[i], "studied") \/ EndsWith(js[i], "learned"))

\* the first index from i on that holds no NL mark
SkipNL(js, i) ==
    CHOOSE k \in i..(Len(js) + 1) :
        /\ k > Len(js) \/ js[k] # NL
        /\ \A m \in i..(k - 1) : js[m] = NL

\* the words from index i up to the end of the line
RestOfLine(js, i) ==
    LET end == CHOOSE k \in i..(Len(js) + 1) :
                   /\ k > Len(js) \/ js[k] = NL
                   /\ \A m \in i..(k - 1) : js[m] # NL
    IN  SubSeq(js, i, end - 1)

\* None, or Some(topics_match.group(1).strip()) (lines 173-175)
topics_match(js) ==
    LET hits == Indexes(js, TopicHit)
    IN  IF Len(hits) = 0 THEN None
        ELSE Some(RestOfLine(js, SkipNL(js, hits[1] + 1)))

\* re.findall(r"(?:for|on)\s+([\w\s\-,]+)", text, re.IGNORECASE): a capture
\* runs over words and blanks up to the first character outside the class,
\* and the search goes on after it (line 140)
CaptureEnd(ws, j) ==
    CHOOSE k \in j..Len(ws) :
        /\ k = Len(ws) \/ ClassPrefix(ws[k]) # ws[k]
        /\ \A m \in j..(k - 1) : ClassPrefix(ws[m]) = ws[m]

possible_dates(ws) ==
    LET from[i \in 1..(Len(ws) + 1)] ==
            IF i >= Len(ws) THEN <<>>
            ELSE IF EndsForOn(ws[i]) /\ ClassPrefix(ws[i + 1]) # ""
                 THEN <<[k \in 1..(CaptureEnd(ws, i + 1) - i) |-> ClassPrefix(ws[i + k])]>>
                      \o from[CaptureEnd(ws, i + 1) + 1]
                 ELSE from[i + 1]
    IN  from[1]

\* date_parser.parse(d.strip()).date(), None when it raises (lines 145-150).
\* dateutil takes the year of a date without one from the current date.
DateParse(d, today) ==
    IF LowerSeq(d) = <<"january", "10th">> THEN Some(<<today[1], 1, 10>>)
    ELSE None

\* the loop of lines 143-150: the first candidate that parses
FirstParsed(ds, today) ==
    LET ok == {k \in 1..Len(ds) : ~IsNone(DateParse(ds[k], today))}
    IN  IF ok = {} THEN None
        ELSE DateParse(ds[CHOOSE k \in ok : \A m \in ok : k <= m], today)

\* "friday" in lower_text (line 159)
SaysFriday(text) ==
    \E i \in 1..Len(WordsOf(text)) : ContainsFriday(Lower(WordsOf(text)[i]))

arrival_match(text) == FindTimes(LowerSeq(WordsOf(text)), "arrived", "came")
departure_match(text) == FindTimes(LowerSeq(WordsOf(text)), "left", "departed")

\* What the patterns of parse_user_text find in a text: the values of its
\* local variables, the marks as parse_mark returns them when it is called.
Scan(text) ==
    [blank |-> IsBlank(text),
     possible_dates |-> possible_dates(WordsOf(text)),
     friday |-> SaysFriday(text),
     arrival_match |-> arrival_match(text),
     departure_match |-> departure_match(text),
     topics_match |-> topics_match(LowerSeq(Join(text))),
     muhammad |-> parse_mark(LowerSeq(WordsOf(text)), "muhammad"),
     abubakar |-> parse_mark(LowerSeq(WordsOf(text)), "abubakar"),
     hafsa |-> parse_mark(LowerSeq(WordsOf(text)), "hafsa")]

\* Scan, computed once for every text
Found == [text \in TurnTexts |-> Scan(text)]

found_date(text, today) == FirstParsed(Found[text].possible_dates, today)

Last(s) == s[Len(s)]

----------------------------------------------------------------------------
(* The records *)

EmptyRecord ==
    [date_str |-> None, arrival |-> None, departure |-> None, topics |-> None,
     is_friday |-> FALSE,
     muhammad_marks |-> None, abubakar_marks |-> None, hafsa_marks |-> None]

\* mutant: the marks are asked for on any day
find_missing_fields_allmarks(rec) ==
       (IF IsNone(rec.date_str) THEN <<"date_str">> ELSE <<>>)
    \o (IF IsNone(rec.arrival) THEN <<"arrival">> ELSE <<>>)
    \o (IF IsNone(rec.departure) THEN <<"departure">> ELSE <<>>)
    \o (IF IsNone(rec.topics) THEN <<"topics">> ELSE <<>>)
    \o (IF IsNone(rec.muhammad_marks) THEN <<"muhammad_marks">> ELSE <<>>)
    \o (IF IsNone(rec.abubakar_marks) THEN <<"abubakar_marks">> ELSE <<>>)
    \o (IF IsNone(rec.hafsa_marks) THEN <<"hafsa_marks">> ELSE <<>>)

\* mutant: the marks are not asked for on a Friday
find_missing_fields_nomarks(rec) ==
       (IF IsNone(rec.date_str) THEN <<"date_str">> ELSE <<>>)
    \o (IF IsNone(rec.arrival) THEN <<"arrival">> ELSE <<>>)
    \o (IF IsNone(rec.departure) THEN <<"departure">> ELSE <<>>)
    \o (IF IsNone(rec.topics) THEN <<"topics">> ELSE <<>>)

\* find_missing_fields (lines 107-126)
find_missing_fields(rec) ==
       (IF IsNone(rec.date_str) THEN <<"date_str">> ELSE <<>>)
    \o (IF IsNone(rec.arrival) THEN <<"arrival">> ELSE <<>>)
    \o (IF IsNone(rec.departure) THEN <<"departure">> ELSE <<>>)
    \o (IF IsNone(rec.topics) THEN <<"topics">> ELSE <<>>)
    \o (IF rec.is_friday
        THEN    (IF IsNone(rec.muhammad_marks) THEN <<"muhammad_marks">> ELSE <<>>)
             \o (IF IsNone(rec.abubakar_marks) THEN <<"abubakar_marks">> ELSE <<>>)
             \o (IF IsNone(rec.hafsa_marks) THEN <<"hafsa_marks">> ELSE <<>>)
        ELSE <<>>)

\* parse_user_text (lines 131-194), field by field: each field of the record
\* after the call, from the record before it and the text

\* mutant: the date of a turn without one is the current date
date_str_after_today(rec, text, today) ==
    LET found == found_date(text, today)
    IN  IF ~IsNone(found) THEN found ELSE Some(today)

\* mutant: no date is made up for a turn without one
date_str_after_nodefault(rec, text, today) ==
    LET found == found_date(text, today)
    IN  IF ~IsNone(found) THEN found ELSE rec.date_str

\* lines 151-156
date_str_after(rec, text, today) ==
    LET found == found_date(text, today)
    IN  IF ~IsNone(found) THEN found
        ELSE IF IsNone(rec.date_str) THEN Some(today)
        ELSE rec.date_str

\* mutant: the flag follows the last text
is_friday_after_text(rec, text) == Found[text].friday

\* lines 159-160
is_friday_after(rec, text) == IF Found[text].friday THEN TRUE ELSE rec.is_friday

\* mutant: the first match is taken
arrival_after_first(rec, text) ==
    LET m == Found[text].arrival_match
    IN  IF Len(m) > 0 THEN Some(m[1]) ELSE rec.arrival

\* lines 163-165
arrival_after(rec, text) ==
    LET m == Found[text].arrival_match
    IN  IF Len(m) > 0 THEN Some(Last(m)) ELSE rec.arrival

\* lines 168-170
departure_after(rec, text) ==
    LET m == Found[text].departure_match
    IN  IF Len(m) > 0 THEN Some(Last(m)) ELSE rec.departure

\* lines 173-175
topics_after(rec, text) ==
    LET m == Found[text].topics_match
    IN  IF ~IsNone(m) THEN m ELSE rec.topics

\* mutant: the marks are looked for on any day
marks_parsed_always(rec, text) == TRUE

\* mutant: the flag is read as it was before the turn
marks_parsed_before(rec, text) == rec.is_friday

\* lines 179-194: the marks are looked for when rec["is_friday"] holds, which
\* line 160 may just have set
marks_parsed(rec, text) == is_friday_after(rec, text)

\* mutant: a mark without a match is cleared
mark_after_clears(rec, text, field, child) ==
    IF marks_parsed(rec, text) THEN Found[text][child] ELSE rec[field]

\* lines 184-194: one mark
mark_after(rec, text, field, child) ==
    LET m == IF marks_parsed(rec, text)
             THEN Found[text][child]
             ELSE None
    IN  IF ~IsNone(m) THEN m ELSE rec[field]

parse_user_text(rec, text, today) ==
    [date_str |-> date_str_after(rec, text, today),
     arrival |-> arrival_after(rec, text),
     departure |-> departure_after(rec, text),
     topics |-> topics_after(rec, text),
     is_friday |-> is_friday_after(rec, text),
     muhammad_marks |-> mark_after(rec, text, "muhammad_marks", "muhammad"),
     abubakar_marks |-> mark_after(rec, text, "abubakar_marks", "abubakar"),
     hafsa_marks |-> mark_after(rec, text, "hafsa_marks", "hafsa")]

----------------------------------------------------------------------------
(* The clock *)

ReminderHour == 18
FirstDay == <<2025, 2, 11>>

\* date.today(), now.date()
Today(clock) == <<FirstDay[1], FirstDay[2], FirstDay[3] + clock.day>>

\* the clock as a later line of the same run reads it: the same, or the next
\* day when midnight passes in between
Later(clock) ==
    {clock} \cup
    (IF clock.hour >= ReminderHour /\ clock.day + 1 < MaxDays
     THEN {[clock EXCEPT !.day = clock.day + 1, !.hour = ReminderHour - 1]}
     ELSE {})

----------------------------------------------------------------------------
(* One run of the script *)

\* the page before the script has run
BlankPage ==
    [error |-> FALSE, title |-> FALSE, reminder |-> FALSE, warning |-> "",
     listed |-> <<>>, success |-> FALSE, gemini_reply |-> None, raised |-> FALSE,
     pdf |-> None]

\* what a run shows when no button was pressed: the title of line 240 and the
\* widgets
EmptyPage == [BlankPage EXCEPT !.title = TRUE]

\* what a run shows that stops at line 22: the st.error of line 21 alone
ErrorPage == [BlankPage EXCEPT !.error = TRUE]

\* mutant: the script goes on without the key
startup_halts_never(key) == FALSE

\* lines 20-22: the run stops when the key is absent
startup_halts(key) == ~key

\* the keys of lines 37-54
SessionKeys == {"teacher_data", "ongoing_record", "missing_fields"}

\* lines 37-38, 41-51, 53-54: a key that is absent gets its first value
session_value(keys, key, value, first) == IF key \in keys THEN value ELSE first

\* mutant: the reminder starts an hour late
check_reminder_late(data, clock) ==
    /\ clock.hour > ReminderHour
    /\ ~\E i \in 1..Len(data) : data[i].date_str = Some(Today(clock))

\* check_reminder (lines 59-68): TRUE when st.warning is shown
check_reminder(data, clock) ==
    /\ clock.hour >= ReminderHour
    /\ ~\E i \in 1..Len(data) : data[i].date_str = Some(Today(clock))

\* mutant: the blocks are written from the last record to the first
generate_pdf_reversed(data) ==
    [i \in 1..Len(data) |->
        [record |-> i,
         date |-> data[Len(data) + 1 - i].date_str,
         arrival |-> data[Len(data) + 1 - i].arrival,
         departure |-> data[Len(data) + 1 - i].departure,
         topics |-> data[Len(data) + 1 - i].topics,
         friday |-> IF data[Len(data) + 1 - i].is_friday
                    THEN Some(<<data[Len(data) + 1 - i].muhammad_marks,
                                data[Len(data) + 1 - i].abubakar_marks,
                                data[Len(data) + 1 - i].hafsa_marks>>)
                    ELSE None]]

\* generate_pdf (lines 73-102): the blocks written after the heading
generate_pdf(data) ==
    [i \in 1..Len(data) |->
        [record |-> i,
         date |-> data[i].date_str,
         arrival |-> data[i].arrival,
         departure |-> data[i].departure,
         topics |-> data[i].topics,
         friday |-> IF data[i].is_friday
                    THEN Some(<<data[i].muhammad_marks, data[i].abubakar_marks,
                                data[i].hafsa_marks>>)
                    ELSE None]]

\* How finalize_record goes on from its wait in llm.invoke (line 212): the
\* call returns or raises and the run goes on to the reset, or a click made
\* while the call waits has Streamlit end the run at the next st.* call,
\* st.success (line 220), or at st.info (line 221).
Outcomes == {"reply", "error", "ended at st.success", "ended at st.info"}

\* the run does not get to the reset of lines 224-234
Ended(outcome) == outcome \in {"ended at st.success", "ended at st.info"}

\* lines 211-218: the reply, or the text made of the exception
gemini_reply(outcome) ==
    IF outcome = "error" THEN "Error calling Gemini" ELSE "reply"

\* mutant: the record is put in front of the store
finalize_record_append_front(rec, data) == <<rec>> \o data

\* mutant: the record is appended twice
finalize_record_append_twice(rec, data) == Append(Append(data, rec), rec)

\* finalize_record up to its wait (lines 199-201): the store with the copy of
\* the record
finalize_record_append(rec, data) == Append(data, rec)

\* finalize_record from its wait on (lines 212-234): the session state and
\* what the run adds to the page
finalize_record_resume(rec, missing, outcome) ==
    [ongoing_record |-> IF Ended(outcome) THEN rec ELSE EmptyRecord,
     missing_fields |-> IF Ended(outcome) THEN missing ELSE <<>>,
     success |-> outcome # "ended at st.success",
     gemini_reply |-> IF Ended(outcome) THEN None ELSE Some(gemini_reply(outcome)),
     raised |-> FALSE]

\* lines 261-267, with the record as parse_user_text left it, up to the end
\* of the run or to its wait in llm.invoke
after_parse(parsed, data) ==
    IF Len(find_missing_fields(parsed)) = 0
    THEN [teacher_data |-> finalize_record_append(parsed, data),
          ongoing_record |-> parsed,
          missing_fields |-> find_missing_fields(parsed),
          warning |-> "", listed |-> <<>>, pc |-> "llm.invoke"]
    ELSE [teacher_data |-> data,
          ongoing_record |-> parsed,
          missing_fields |-> find_missing_fields(parsed),
          warning |-> "missing", listed |-> find_missing_fields(parsed),
          pc |-> "idle"]

\* The st.* calls of the Submit branch before its end or its wait: the
\* st.warning of line 258, or the st.warning of line 265 and one st.write
\* (line 267) for each missing field; none when the record is complete.
Displays(r) == IF r.warning = "" THEN 0 ELSE 1 + Len(r.listed)

\* How many of these calls a run gets through: all of them, or fewer when a
\* click made while the run is under way has Streamlit end the run at the
\* next of them.
Shown(r) == 0..Displays(r)

\* what the run has displayed when it got through that many of the calls
shown_warning(r, shown) == IF shown >= 1 THEN r.warning ELSE ""
shown_listed(r, shown) == SubSeq(r.listed, 1, shown - 1)

\* mutant: a blank text is handled like any other
main_submit_unchecked(rec, data, missing, text, today) ==
    after_parse(parse_user_text(rec, text, today), data)

\* the Submit branch of main (lines 256-267), up to the end of the run or to
\* its wait in llm.invoke
main_submit(rec, data, missing, text, today) ==
    IF Found[text].blank
    THEN [teacher_data |-> data, ongoing_record |-> rec, missing_fields |-> missing,
          warning |-> "blank", listed |-> <<>>, pc |-> "idle"]
    ELSE after_parse(parse_user_text(rec, text, today), data)

----------------------------------------------------------------------------
(* The session *)

\* Before the first run of the script: the session state holds no key.  The
\* values of teacher_data, ongoing_record and missing_fields stand for
\* nothing until their keys are in session_keys.
Init ==
    /\ api_key \in BOOLEAN
    /\ session_keys = {}
    /\ teacher_data = <<>>
    /\ ongoing_record = EmptyRecord
    /\ missing_fields = <<>>
    /\ user_input = <<>>
    /\ submit_clicked = FALSE
    /\ now = [day |-> 0, hour |-> ReminderHour - 1]
    /\ pc = "idle"
    /\ page = BlankPage

\* The environment gets the key: load_dotenv (line 18) reads the .env file
\* on every run.
ProvideKey ==
    /\ ~api_key
    /\ api_key' = TRUE
    /\ UNCHANGED <<session_keys, teacher_data, ongoing_record, missing_fields,
                   user_input, submit_clicked, now, pc, page>>

\* A run of the script with no button pressed: the page is opened or loaded
\* again (lines 18-54, 239-254, 270-290).
Rerun ==
    /\ pc = "idle"
    /\ ~submit_clicked
    /\ IF startup_halts(api_key)
       THEN /\ page' = ErrorPage
            /\ UNCHANGED <<session_keys, teacher_data, ongoing_record, missing_fields>>
       ELSE /\ session_keys' = SessionKeys
            /\ teacher_data' =
                   session_value(session_keys, "teacher_data", teacher_data, <<>>)
            /\ ongoing_record' =
                   session_value(session_keys, "ongoing_record", ongoing_record,
                                 EmptyRecord)
            /\ missing_fields' =
                   session_value(session_keys, "missing_fields", missing_fields, <<>>)
            /\ page' = [EmptyPage EXCEPT
                          !.reminder = check_reminder(teacher_data', now)]
    /\ UNCHANGED <<api_key, user_input, submit_clicked, now, pc>>

\* the last run got to main and showed the text area and the buttons
Served == ~startup_halts(api_key) /\ session_keys = SessionKeys

\* The user enters a text in the text area, for which the script runs with no
\* button pressed (lines 239-254), and clicks Submit.
Post(text) ==
    /\ Served
    /\ pc = "idle"
    /\ ~submit_clicked
    /\ Len(teacher_data) < MaxRecords
    /\ user_input' = text
    /\ submit_clicked' = TRUE
    /\ page' = [EmptyPage EXCEPT !.reminder = check_reminder(teacher_data, now)]
    /\ UNCHANGED <<api_key, session_keys, teacher_data, ongoing_record,
                   missing_fields, now, pc>>

\* The script run that handles the click on Submit (lines 239-267), up to
\* its end or, when the record is complete, to its wait in llm.invoke (line
\* 212).  The run reads the clock at line 60 and again at line 156, where it
\* may be later.
Submit ==
    /\ Served
    /\ pc = "idle"
    /\ submit_clicked
    /\ \E later \in Later(now) :
         \E r \in {main_submit(ongoing_record, teacher_data, missing_fields,
                               user_input, Today(later))} :
             /\ now' = later
             /\ teacher_data' = r.teacher_data
             /\ ongoing_record' = r.ongoing_record
             /\ missing_fields' = r.missing_fields
             /\ pc' = r.pc
             /\ \E shown \in Shown(r) :
                  page' = [EmptyPage EXCEPT
                             !.reminder = check_reminder(teacher_data, now),
                             !.warning = shown_warning(r, shown),
                             !.listed = shown_listed(r, shown)]
    /\ submit_clicked' = FALSE
    /\ UNCHANGED <<api_key, session_keys, user_input>>

\* The rest of a run that waits in llm.invoke (lines 212-234): the call
\* returns or raises, st.success and st.info show the acknowledgement and the
\* ongoing record is reset, unless Streamlit ends the run at st.success or at
\* st.info.
Resume ==
    /\ pc = "llm.invoke"
    /\ \E outcome \in Outcomes :
         \E r \in {finalize_record_resume(ongoing_record, missing_fields, outcome)} :
             /\ ongoing_record' = r.ongoing_record
             /\ missing_fields' = r.missing_fields
             /\ page' = [page EXCEPT !.success = r.success,
                                      !.gemini_reply = r.gemini_reply,
                                      !.raised = r.raised]
    /\ pc' = "idle"
    /\ UNCHANGED <<api_key, session_keys, teacher_data, user_input,
                   submit_clicked, now>>

\* The script run that handles the click on "Get All Data (PDF)" (lines 272-282).
GetPdf ==
    /\ Served
    /\ pc = "idle"
    /\ ~submit_clicked
    /\ page' = [EmptyPage EXCEPT
                  !.reminder = check_reminder(teacher_data, now),
                  !.warning = IF Len(teacher_data) = 0 THEN "empty" ELSE "",
                  !.pdf = IF Len(teacher_data) = 0 THEN None
                          ELSE Some(generate_pdf(teacher_data))]
    /\ UNCHANGED <<api_key, session_keys, teacher_data, ongoing_record,
                   missing_fields, user_input, submit_clicked, now, pc>>

\* Time passes, also while a run waits: the hour of the reminder comes, then
\* the next day.
Tick ==
    /\ \/ /\ now.hour < ReminderHour
          /\ now' = [now EXCEPT !.hour = ReminderHour]
       \/ /\ now.hour >= ReminderHour
          /\ now.day + 1 < MaxDays
          /\ now' = [day |-> now.day + 1, hour |-> ReminderHour - 1]
    /\ UNCHANGED <<api_key, session_keys, teacher_data, ongoing_record,
                   missing_fields, user_input, submit_clicked, pc, page>>

Next ==
    \/ ProvideKey
    \/ Rerun
    \/ \E text \in Texts : Post(text)
    \/ Submit
    \/ Resume
    \/ GetPdf
    \/ Tick

Spec == Init /\ [][Next]_vars

----------------------------------------------------------------------------
(* Vocabulary of the properties *)

\* a step that is the script run of a click on Submit, up to its end or to
\* its wait
SubmitStep == submit_clicked /\ ~submit_clicked'

\* a step that is the rest of a run that waited in llm.invoke
ResumeStep == pc = "llm.invoke" /\ pc' = "idle"

\* the text holds a character that is no white space
NonBlank(text) == \E i \in 1..Len(text) : Len(text[i]) > 0

\* the record lacks no required field
Complete(rec) ==
    /\ ~IsNone(rec.date_str) /\ ~IsNone(rec.arrival)
    /\ ~IsNone(rec.departure) /\ ~IsNone(rec.topics)
    /\ rec.is_friday =>
          /\ ~IsNone(rec.muhammad_marks)
          /\ ~IsNone(rec.abubakar_marks)
          /\ ~IsNone(rec.hafsa_marks)

\* the record the submitted text makes of the ongoing record
Extracted == parse_user_text(ongoing_record, user_input, Today(now'))

\* date, arrival, departure and topics are set
BaseFieldsSet(rec) ==
    /\ ~IsNone(rec.date_str) /\ ~IsNone(rec.arrival)
    /\ ~IsNone(rec.departure) /\ ~IsNone(rec.topics)

MarksOf(rec) == <<rec.muhammad_marks, rec.abubakar_marks, rec.hafsa_marks>>

----------------------------------------------------------------------------
(* C1: a Submit of a non-blank text finalizes exactly once, and makes the   *)
(* store one record longer, when the record lacks no required field after   *)
(* the extraction; otherwise the store keeps its length.  In particular     *)
(* "It's Friday. Muhammad 18, Abubakar 15, Hafsa 20", submitted when date,  *)
(* arrival, departure and topics are set, completes the record.  The rest   *)
(* of the run, after its wait, appends nothing more.                        *)
C1_SubmitFinalizesOnce ==
    [][/\ (SubmitStep /\ NonBlank(user_input)) =>
             /\ IF Complete(Extracted)
                THEN /\ Len(teacher_data') = Len(teacher_data) + 1
                     /\ teacher_data' = Append(teacher_data, Extracted)
                     /\ pc' = "llm.invoke"
                ELSE /\ teacher_data' = teacher_data
                     /\ pc' = "idle"
             /\ (user_input = <<LineFriday>> /\ BaseFieldsSet(ongoing_record)) =>
                   /\ Len(teacher_data') = Len(teacher_data) + 1
                   /\ Last(teacher_data').is_friday
                   /\ MarksOf(Last(teacher_data')) =
                          <<Some("18"), Some("15"), Some("20")>>
       /\ ResumeStep => teacher_data' = teacher_data
       /\ (~page.success /\ page'.success) => ResumeStep
      ]_vars

\* the run of the scenario has happened: the marks came last
C1_Witness ==
    /\ page.success
    /\ user_input = <<LineFriday>>
    /\ Len(teacher_data) = 1
    /\ teacher_data[1].is_friday
    /\ teacher_data[1].arrival = Some("10:40")
    /\ MarksOf(teacher_data[1]) = <<Some("18"), Some("15"), Some("20")>>

(* C2: finalization is indivisible for the user's turns: the record is       *)
(* copied into the store, the acknowledgement is asked for and the ongoing   *)
(* record is reset by the script run of one Submit; a run that has appended  *)
(* the record resets the ongoing record before it ends, so that no later     *)
(* turn starts from a stored record that is still the ongoing record, which  *)
(* it would append again.                                                    *)
C2_FinalizationAtomic ==
    [][/\ teacher_data' # teacher_data =>
             /\ SubmitStep
             /\ teacher_data' = Append(teacher_data, Extracted)
       /\ ResumeStep =>
             /\ ongoing_record' = EmptyRecord
             /\ missing_fields' = <<>>
             /\ ~IsNone(page'.gemini_reply)
       /\ pc' = "idle" =>
             \A i \in 1..Len(teacher_data') : ongoing_record' # teacher_data'[i]
      ]_vars

(* C3: finalizing resets the ongoing record to its empty shape, also when    *)
(* the acknowledgement call fails; the failure does not block finalization:  *)
(* the record is in the store, no exception leaves finalize_record, and the  *)
(* error shows in the acknowledgement text alone.                            *)
C3_ResetAlsoOnFailure ==
    [][/\ ResumeStep =>
             /\ ongoing_record' = EmptyRecord
             /\ missing_fields' = <<>>
             /\ Last(teacher_data') = ongoing_record
             /\ page'.success /\ ~page'.raised
             /\ page'.gemini_reply \in {Some("reply"), Some("Error calling Gemini")}
       /\ (ResumeStep /\ page'.gemini_reply = Some("Error calling Gemini")) =>
             /\ ongoing_record' = EmptyRecord
             /\ Last(teacher_data') = ongoing_record
             /\ page'.success /\ ~page'.raised /\ page'.warning = ""
       /\ ~page'.raised
      ]_vars

\* s is a prefix of t
IsPrefix(s, t) == Len(s) <= Len(t) /\ SubSeq(t, 1, Len(s)) = s

(* C4: the store is append-only and keeps the order of insertion: over every *)
(* step (a Submit, an export, a reminder check, a finalization and the edits  *)
(* of the next record) the store before is a prefix of the store after.      *)
C4_StoreAppendOnly == [][IsPrefix(teacher_data, teacher_data')]_vars

\* two different records are stored and an export has run over them
C4_Witness ==
    /\ Len(teacher_data) = 2
    /\ teacher_data[1] # teacher_data[2]
    /\ ~IsNone(page.pdf)

(* C5: every stored record is complete: date, arrival, departure and topics  *)
(* are set, and the three marks too when its Friday flag is true.            *)
C5_StoredRecordsComplete ==
    \A i \in 1..Len(teacher_data) : Complete(teacher_data[i])

\* a Friday record with its marks and a record of another day are stored
C5_Witness ==
    /\ Len(teacher_data) = 2
    /\ teacher_data[1].is_friday
    /\ MarksOf(teacher_data[1]) = <<Some("18"), Some("15"), Some("7")>>
    /\ ~teacher_data[2].is_friday

\* the record a Submit worked on, as the run left it: the ongoing record, or
\* the stored one when the run finalized it
TurnRecord ==
    IF teacher_data' = teacher_data THEN ongoing_record' ELSE Last(teacher_data')

\* the word "friday" stands in the text, in any case
MentionsFriday(text) ==
    \E i \in 1..Len(text) : \E j \in 1..Len(text[i]) :
        text[i][j] \in {"friday", "Friday."}

(* C6: once is_friday is true on the ongoing record, no Submit resets it:   *)
(* it stays true over every later step until the record is finalized, and    *)
(* the record is finalized with the flag true; only the rest of the run that *)
(* finalized it, after its wait, resets the flag.                            *)
C6_FridaySticky ==
    [][ongoing_record.is_friday =>
          /\ teacher_data' = teacher_data =>
                \/ ongoing_record'.is_friday
                \/ ResumeStep /\ Last(teacher_data).is_friday
          /\ teacher_data' # teacher_data => Last(teacher_data').is_friday
      ]_vars

\* a text without "friday" was submitted on a record whose flag was true, and
\* the flag is still true
C6_Witness ==
    /\ ~submit_clicked
    /\ user_input = <<LineCame>> /\ ~MentionsFriday(user_input)
    /\ ongoing_record.is_friday
    /\ ongoing_record.hafsa_marks = Some("7")

----------------------------------------------------------------------------
(* The completion tracker on its own: find_missing_fields and the branch of  *)
(* main after it (lines 261-267), applied to any record, and the rest of a   *)
(* run that waits in llm.invoke.                                             *)

AnyRecord ==
    [date_str : {None, Some(FirstDay)},
     arrival : {None, Some("10:40")},
     departure : {None, Some("12:00")},
     topics : {None, Some(<<"ai">>)},
     is_friday : BOOLEAN,
     muhammad_marks : {None, Some("18")},
     abubakar_marks : {None, Some("15")},
     hafsa_marks : {None, Some("20")}]

TrackerInit ==
    /\ api_key = TRUE
    /\ session_keys = SessionKeys
    /\ teacher_data = <<>>
    /\ ongoing_record \in AnyRecord
    /\ missing_fields = <<>>
    /\ user_input = <<>>
    /\ submit_clicked = FALSE
    /\ now = [day |-> 0, hour |-> ReminderHour - 1]
    /\ pc = "idle"
    /\ page = EmptyPage

Track ==
    /\ pc = "idle"
    /\ Len(teacher_data) < MaxRecords
    /\ \E r \in {after_parse(ongoing_record, teacher_data)} :
         /\ teacher_data' = r.teacher_data
         /\ ongoing_record' = r.ongoing_record
         /\ missing_fields' = r.missing_fields
         /\ pc' = r.pc
         /\ \E shown \in Shown(r) :
              page' = [EmptyPage EXCEPT !.warning = shown_warning(r, shown),
                                        !.listed = shown_listed(r, shown)]
    /\ UNCHANGED <<api_key, session_keys, user_input, submit_clicked, now>>

TrackerNext ==
    \/ Track
    \/ Resume

TrackerSpec == TrackerInit /\ [][TrackerNext]_vars

FieldOrder ==
    <<"date_str", "arrival", "departure", "topics",
      "muhammad_marks", "abubakar_marks", "hafsa_marks">>

MarkFields == {"muhammad_marks", "abubakar_marks", "hafsa_marks"}

\* the unset fields among date, arrival, departure and topics, and the unset
\* marks of a Friday, in the fixed order
Required(rec) ==
    SelectSeq(FieldOrder,
              LAMBDA f : IsNone(rec[f]) /\ (f \in MarkFields => rec.is_friday))

(* C7: for every ongoing record find_missing_fields returns the unset fields *)
(* among date, arrival, departure, topics, and the unset marks exactly when   *)
(* is_friday is true, in the fixed order; a record whose flag is false is     *)
(* complete once date, arrival, departure and topics are set, whatever its    *)
(* marks.                                                                     *)
C7_MissingFieldsExact ==
    [][pc = "idle" =>
          /\ missing_fields' = Required(ongoing_record)
          /\ IsPrefix(page'.listed, Required(ongoing_record))
          /\ page'.warning = "" => page'.listed = <<>>
          /\ IF Required(ongoing_record) = <<>>
             THEN teacher_data' = Append(teacher_data, ongoing_record)
             ELSE teacher_data' = teacher_data
          /\ (~ongoing_record.is_friday /\ BaseFieldsSet(ongoing_record)) =>
                 teacher_data' = Append(teacher_data, ongoing_record)
      ]_vars

\* a record with the flag false and only some marks was found complete
C7_Witness ==
    /\ page.success
    /\ Len(teacher_data) = 1
    /\ ~teacher_data[1].is_friday
    /\ MarksOf(teacher_data[1]) = <<None, None, Some("20")>>

----------------------------------------------------------------------------
(* C8: extraction is independent per field: over a Submit each of arrival,   *)
(* departure, topics and the three marks takes a new value only if the text  *)
(* holds a match for it; a field without a match keeps the value it had.     *)
C8_FieldsKeptWithoutMatch ==
    [][(SubmitStep /\ NonBlank(user_input)) =>
          /\ IF Len(Found[user_input].arrival_match) = 0
             THEN TurnRecord.arrival = ongoing_record.arrival
             ELSE \E k \in 1..Len(Found[user_input].arrival_match) :
                     TurnRecord.arrival = Some(Found[user_input].arrival_match[k])
          /\ IF Len(Found[user_input].departure_match) = 0
             THEN TurnRecord.departure = ongoing_record.departure
             ELSE \E k \in 1..Len(Found[user_input].departure_match) :
                     TurnRecord.departure = Some(Found[user_input].departure_match[k])
          /\ IF IsNone(Found[user_input].topics_match)
             THEN TurnRecord.topics = ongoing_record.topics
             ELSE TurnRecord.topics = Found[user_input].topics_match
          /\ IsNone(Found[user_input].muhammad) =>
                TurnRecord.muhammad_marks = ongoing_record.muhammad_marks
          /\ IsNone(Found[user_input].abubakar) =>
                TurnRecord.abubakar_marks = ongoing_record.abubakar_marks
          /\ IsNone(Found[user_input].hafsa) =>
                TurnRecord.hafsa_marks = ongoing_record.hafsa_marks
      ]_vars

\* values of several turns are on the record: two marks of an earlier turn were
\* kept by a turn that gave the arrival and the third mark
C8_Witness ==
    /\ ~submit_clicked
    /\ user_input = <<LineCame>>
    /\ ongoing_record.arrival = Some("09:15")
    /\ MarksOf(ongoing_record) = <<Some("18"), Some("15"), Some("7")>>

\* the date the words of the text give: "for January 10th." is the one date
\* phrase of the vocabulary that parses
DateIn(text, today) ==
    IF \E i \in 1..Len(text) : text[i] = LineFull
    THEN Some(<<today[1], 1, 10>>) ELSE None

(* C9: a turn without a date that parses sets the date to the current date   *)
(* when the record has none and leaves a date the record has; a turn with a  *)
(* date that parses overwrites the date, also one defaulted earlier.         *)
C9_DateAcrossTurns ==
    [][(SubmitStep /\ NonBlank(user_input)) =>
          TurnRecord.date_str =
              IF ~IsNone(DateIn(user_input, Today(now')))
              THEN DateIn(user_input, Today(now'))
              ELSE IF IsNone(ongoing_record.date_str) THEN Some(Today(now'))
              ELSE ongoing_record.date_str
      ]_vars

\* the date of the text has replaced the date an earlier turn defaulted
C9_Witness ==
    /\ ~submit_clicked
    /\ user_input = <<LineFull>>
    /\ ongoing_record.is_friday
    /\ ongoing_record.date_str = Some(<<FirstDay[1], 1, 10>>)

AnyMark(rec) ==
    \/ ~IsNone(rec.muhammad_marks)
    \/ ~IsNone(rec.abubakar_marks)
    \/ ~IsNone(rec.hafsa_marks)

(* C10: marks are set only on a record whose is_friday is true, the ongoing  *)
(* record and the stored ones alike; marks named in a turn while the flag is  *)
(* false are not stored.                                                      *)
C10_MarksOnlyOnFriday ==
    /\ AnyMark(ongoing_record) => ongoing_record.is_friday
    /\ \A i \in 1..Len(teacher_data) :
          AnyMark(teacher_data[i]) => teacher_data[i].is_friday

\* a turn that named a mark has run on a record whose flag is false
C10_Witness ==
    /\ ~submit_clicked
    /\ user_input = <<LineCame>>
    /\ ~ongoing_record.is_friday
    /\ ongoing_record.arrival = Some("09:15")
    /\ ~AnyMark(ongoing_record)

----------------------------------------------------------------------------
(* The reminder and the report on their own: one run of the script, or one  *)
(* call of generate_pdf, on any store of finalized records at any time of    *)
(* the day.                                                                  *)

\* now.hour and now.minute of line 60
ClockHours == {0, ReminderHour - 1, ReminderHour, 23}
ClockMinutes == {0, 30, 59}
Clocks == [day : 0..(MaxDays - 1), hour : ClockHours, minute : ClockMinutes]

\* the dates of the stored records: the days of the session and the date of
\* the vocabulary
StoredDates ==
    {Some(Today([day |-> d])) : d \in 0..(MaxDays - 1)} \cup {Some(<<FirstDay[1], 1, 10>>)}

\* finalized records: complete, with the marks of a Friday
StoredRecords ==
    {[date_str |-> d, arrival |-> Some("10:40"), departure |-> Some("12:00"),
      topics |-> Some(<<"ai">>), is_friday |-> f,
      muhammad_marks |-> IF f THEN Some("18") ELSE None,
      abubakar_marks |-> IF f THEN Some("15") ELSE None,
      hafsa_marks |-> IF f THEN Some("20") ELSE None] :
        d \in StoredDates, f \in BOOLEAN}

Stores == SeqsUpTo(StoredRecords, MaxRecords)

StoreInit ==
    /\ api_key = TRUE
    /\ session_keys = SessionKeys
    /\ teacher_data \in Stores
    /\ ongoing_record = EmptyRecord
    /\ missing_fields = <<>>
    /\ user_input = <<>>
    /\ submit_clicked = FALSE
    /\ now \in Clocks
    /\ pc = "idle"
    /\ page = BlankPage

ReminderNext == Rerun

ReminderSpec == StoreInit /\ [][ReminderNext]_vars

\* a stored record has the date of the day
DatedToday(data, clock) ==
    Some(Today(clock)) \in {data[i].date_str : i \in 1..Len(data)}

(* C11: a run of check_reminder signals exactly when the local hour is at    *)
(* least 18 and no stored record has the date of the day: at 18:30 with no   *)
(* record of the day it signals, at 17:59 it does not, whatever the store;   *)
(* it changes neither the store nor the ongoing record.                      *)
C11_ReminderExact ==
    [][/\ page'.title
       /\ page'.reminder <=> (now.hour >= 18 /\ ~DatedToday(teacher_data, now))
       /\ (now.hour = 18 /\ now.minute = 30 /\ ~DatedToday(teacher_data, now)) =>
              page'.reminder
       /\ (now.hour = 17 /\ now.minute = 59) => ~page'.reminder
       /\ UNCHANGED <<teacher_data, ongoing_record>>
      ]_vars

\* at 18:30 the check has run on a store with a record of the day, and on the
\* day after it
C11_Witness ==
    /\ page.title /\ ~page.reminder
    /\ now.hour = 18 /\ now.minute = 30
    /\ Len(teacher_data) = 2
    /\ teacher_data[2].date_str = Some(Today(now))
    /\ teacher_data[1].date_str # Some(Today(now))

\* A call of generate_pdf on the store as it is, the empty store included
\* (lines 73-102); main calls it for a store that holds a record.
Render ==
    /\ Served
    /\ ~submit_clicked
    /\ pc = "idle"
    /\ page' = [BlankPage EXCEPT !.pdf = Some(generate_pdf(teacher_data))]
    /\ UNCHANGED <<api_key, session_keys, teacher_data, ongoing_record,
                   missing_fields, user_input, submit_clicked, now, pc>>

RendererNext ==
    \/ Render
    \/ GetPdf

RendererSpec == StoreInit /\ [][RendererNext]_vars

\* the blocks render the records of the store, one each, in the order of
\* insertion, with the marks on the Friday records alone
ReportOf(blocks, data) ==
    /\ Len(blocks) = Len(data)
    /\ \A i \in 1..Len(data) :
          /\ blocks[i].record = i
          /\ blocks[i].date = data[i].date_str
          /\ blocks[i].arrival = data[i].arrival
          /\ blocks[i].departure = data[i].departure
          /\ blocks[i].topics = data[i].topics
          /\ ~IsNone(blocks[i].friday) <=> data[i].is_friday
          /\ data[i].is_friday => blocks[i].friday = Some(MarksOf(data[i]))

(* C12: an export over the empty store does not raise: generate_pdf gives    *)
(* the document without blocks and main shows its warning; an export over a  *)
(* store that holds records gives one block per record, block i (from 1)     *)
(* for the i-th record in the order of insertion, with the three marks       *)
(* exactly on the records whose is_friday is true.                           *)
C12_ReportBlocks ==
    /\ ~page.raised
    /\ (page.title /\ IsNone(page.pdf)) =>
           (teacher_data = <<>> /\ page.warning = "empty")
    /\ ~IsNone(page.pdf) =>
           /\ ReportOf(page.pdf[1], teacher_data)
           /\ page.warning = ""
           /\ teacher_data = <<>> => page.pdf = Some(<<>>)

\* a report of two blocks, of a Friday record and of a record of another date
\* that is none
C12_Witness ==
    /\ ~IsNone(page.pdf)
    /\ Len(page.pdf[1]) = 2
    /\ page.pdf[1][1].friday = Some(<<Some("18"), Some("15"), Some("20")>>)
    /\ page.pdf[1][2].friday = None
    /\ page.pdf[1][1].date # page.pdf[1][2].date

----------------------------------------------------------------------------
(* C13: while the key is absent every run of the script halts at line 22,    *)
(* before any interaction is served: the page shows the error and neither    *)
(* the title nor a widget, no Submit is pending or processed, and the keys   *)
(* of the store, of the ongoing record and of the missing fields are never   *)
(* created in the session state, nor their values changed.                   *)
C13_NoKeyNoService ==
    ~api_key =>
        /\ session_keys = {}
        /\ teacher_data = <<>> /\ ongoing_record = EmptyRecord /\ missing_fields = <<>>
        /\ ~submit_clicked /\ user_input = <<>>
        /\ page \in {BlankPage, ErrorPage}

\* the script has run without the key and halted, and the key is still absent
\* on the next day
C13_Witness ==
    /\ ~api_key
    /\ page = ErrorPage
    /\ now.day = 1
    /\ session_keys = {}

----------------------------------------------------------------------------
(* One turn on its own: the run of a Submit (lines 256-267, and 212-234      *)
(* after its wait) on any text of TurnTexts, from the ongoing records that   *)
(* one turn leaves.                                                          *)

\* the ongoing records after one turn of one line that did not complete
TurnRecords ==
    {EmptyRecord} \cup
    {rec \in {parse_user_text(EmptyRecord, <<line>>, FirstDay) :
                  line \in Lines} :
        Len(find_missing_fields(rec)) > 0}

TurnInit ==
    /\ api_key = TRUE
    /\ session_keys = SessionKeys
    /\ teacher_data = <<>>
    /\ ongoing_record \in TurnRecords
    /\ missing_fields = IF ongoing_record = EmptyRecord THEN <<>>
                        ELSE find_missing_fields(ongoing_record)
    /\ user_input \in TurnTexts
    /\ submit_clicked = TRUE
    /\ now = [day |-> 0, hour |-> ReminderHour - 1]
    /\ pc = "idle"
    /\ page = EmptyPage

TurnNext ==
    \/ Submit
    \/ Resume

TurnSpec == TurnInit /\ [][TurnNext]_vars

\* what the lines of the vocabulary say
ArrivalIn(line) ==
    IF line = LineFull THEN Some("10:40")
    ELSE IF line = LineCame THEN Some("09:15")
    ELSE None

DepartureIn(line) ==
    IF line = LineFull THEN Some("12:00")
    ELSE IF line = LineLate THEN Some("13:30")
    ELSE None

TopicsIn(line) ==
    IF line = LineFull THEN Some(<<"ai", "for", "january", "10th.">>)
    ELSE IF line = LineLate THEN Some(<<"math">>)
    ELSE None

\* the lines of the text that say something of the kind In
LinesWith(text, In(_)) == {i \in 1..Len(text) : ~IsNone(In(text[i]))}

FirstOf(S) == CHOOSE i \in S : \A j \in S : i <= j
LastOf(S) == CHOOSE i \in S : \A j \in S : j <= i

(* C14: of several arrival matches in one text ("arrived at HH:MM", "came    *)
(* at HH:MM") the last in reading order is stored, and so for the departure  *)
(* ("left at", "departed at"); of several "studied"/"learned" matches the    *)
(* first gives the topics.                                                   *)
C14_LastTimeFirstTopic ==
    [][(SubmitStep /\ NonBlank(user_input)) =>
          /\ LinesWith(user_input, ArrivalIn) # {} =>
                TurnRecord.arrival =
                    ArrivalIn(user_input[LastOf(LinesWith(user_input, ArrivalIn))])
          /\ LinesWith(user_input, DepartureIn) # {} =>
                TurnRecord.departure =
                    DepartureIn(user_input[LastOf(LinesWith(user_input, DepartureIn))])
          /\ LinesWith(user_input, TopicsIn) # {} =>
                TurnRecord.topics =
                    TopicsIn(user_input[FirstOf(LinesWith(user_input, TopicsIn))])
      ]_vars

\* a text with two arrivals was handled and the later one is in the stored
\* record
C14_Witness ==
    /\ ~submit_clicked
    /\ user_input = <<LineFull, LineCame>>
    /\ Len(teacher_data) = 1
    /\ teacher_data[1].arrival = Some("09:15")
    /\ teacher_data[1].departure = Some("12:00")

----------------------------------------------------------------------------
\* the list names the field
Lists(list, field) == \E i \in 1..Len(list) : list[i] = field

(* C15: after the run of a Submit of a non-blank text the date of the        *)
(* ongoing record is set, unless the run finalized the record and reset it;  *)
(* so the missing fields the handler computes and shows never name           *)
(* date_str, though find_missing_fields names it first for a record without  *)
(* a date.                                                                   *)
C15_DateNeverListed ==
    [][/\ (SubmitStep /\ NonBlank(user_input)) => ~IsNone(ongoing_record'.date_str)
       /\ (~IsNone(ongoing_record.date_str) /\ IsNone(ongoing_record'.date_str)) =>
             /\ ResumeStep
             /\ ongoing_record' = EmptyRecord
             /\ Last(teacher_data') = ongoing_record
       /\ ~Lists(missing_fields', "date_str")
       /\ ~Lists(page'.listed, "date_str")
       /\ IsNone(ongoing_record'.date_str) =>
             /\ Lists(find_missing_fields(ongoing_record'), "date_str")
             /\ missing_fields' = <<>>
      ]_vars

\* a turn whose "on ..." phrase is no date left the date of the day on the
\* record, and the fields shown as missing are the other three
C15_Witness ==
    /\ ~submit_clicked
    /\ user_input = <<LineOn>>
    /\ ongoing_record.date_str = Some(FirstDay)
    /\ page.listed = <<"arrival", "departure", "topics">>
    /\ missing_fields = page.listed

(* C16: between the turns the ongoing record is never complete: in every     *)
(* state a turn starts from, find_missing_fields of the ongoing record is    *)
(* not empty, since a record that becomes complete is finalized and reset    *)
(* by the same run; so no turn starts from a record with date, arrival,      *)
(* departure and topics set and is_friday false.                             *)
C16_IncompleteBetweenTurns ==
    pc = "idle" =>
        /\ Len(find_missing_fields(ongoing_record)) > 0
        /\ ~Complete(ongoing_record)
        /\ ~(BaseFieldsSet(ongoing_record) /\ ~ongoing_record.is_friday)

----------------------------------------------------------------------------
\* the marks the lines of the vocabulary give
MuhammadIn(line) == IF line = LineFriday THEN Some("18") ELSE None
AbubakarIn(line) == IF line = LineFriday THEN Some("15") ELSE None
HafsaIn(line) ==
    IF line = LineFriday THEN Some("20")
    ELSE IF line = LineCame THEN Some("7")
    ELSE None

AllMarksIn(text) ==
    /\ LinesWith(text, MuhammadIn) # {}
    /\ LinesWith(text, AbubakarIn) # {}
    /\ LinesWith(text, HafsaIn) # {}

\* a text with "friday" has its marks stored by the same turn
FridayMarksStored ==
    MentionsFriday(user_input) =>
        /\ TurnRecord.is_friday
        /\ LinesWith(user_input, MuhammadIn) # {} =>
              TurnRecord.muhammad_marks =
                  MuhammadIn(user_input[LastOf(LinesWith(user_input, MuhammadIn))])
        /\ LinesWith(user_input, AbubakarIn) # {} =>
              TurnRecord.abubakar_marks =
                  AbubakarIn(user_input[LastOf(LinesWith(user_input, AbubakarIn))])
        /\ LinesWith(user_input, HafsaIn) # {} =>
              TurnRecord.hafsa_marks =
                  HafsaIn(user_input[LastOf(LinesWith(user_input, HafsaIn))])

\* a mark that the text does not give and the record did not have
LacksMark ==
    \/ LinesWith(user_input, MuhammadIn) = {} /\ IsNone(ongoing_record.muhammad_marks)
    \/ LinesWith(user_input, AbubakarIn) = {} /\ IsNone(ongoing_record.abubakar_marks)
    \/ LinesWith(user_input, HafsaIn) = {} /\ IsNone(ongoing_record.hafsa_marks)

(* C17 as stated: within one Submit the Friday flag is applied before the    *)
(* marks are extracted and before the completeness check: a text with        *)
(* "friday" and marks has those marks stored by the same turn, also when     *)
(* is_friday was false before it, and a text with "friday" but not all       *)
(* three marks does not finalize a record whose date, arrival, departure     *)
(* and topics are set by the end of the turn.                                *)
C17_AsStated ==
    [][(SubmitStep /\ NonBlank(user_input)) =>
          /\ FridayMarksStored
          /\ (/\ MentionsFriday(user_input)
              /\ ~AllMarksIn(user_input)
              /\ BaseFieldsSet(TurnRecord)) => teacher_data' = teacher_data
      ]_vars

(* C17, amended: within one Submit the Friday flag is applied before the     *)
(* marks are extracted and before the completeness check: a text with        *)
(* "friday" and marks has those marks stored by the same turn, also when     *)
(* is_friday was false before it, and a text with "friday" does not          *)
(* finalize a record whose date, arrival, departure and topics are set by    *)
(* the end of the turn when a mark is given neither by the text nor by an    *)
(* earlier turn, as is the case whenever is_friday was false before the      *)
(* turn and the text gives not all three marks; it does finalize the record  *)
(* when the marks the text lacks were stored by earlier turns.               *)
C17_FridayBeforeMarks ==
    [][(SubmitStep /\ NonBlank(user_input)) =>
          /\ FridayMarksStored
          /\ (MentionsFriday(user_input) /\ BaseFieldsSet(TurnRecord)) =>
                /\ LacksMark => teacher_data' = teacher_data
                /\ ~LacksMark => teacher_data' = Append(teacher_data, Extracted)
                /\ (~ongoing_record.is_friday /\ ~AllMarksIn(user_input)) =>
                      teacher_data' = teacher_data
      ]_vars

\* a text with "friday" and no marks set date, arrival, departure and topics
\* on a record whose flag was false, and the record was not finalized
C17_Witness ==
    /\ ~submit_clicked
    /\ user_input = <<LineFull, LineFri>>
    /\ teacher_data = <<>>
    /\ BaseFieldsSet(ongoing_record)
    /\ ongoing_record.is_friday
    /\ ongoing_record.arrival = Some("10:40")
    /\ ~AnyMark(ongoing_record)

----------------------------------------------------------------------------
(* C18: a Submit of a text that is empty or white space alone is rejected    *)
(* before the extraction: the ongoing record (its date too, which is not     *)
(* set to the date of the day), the stored list of missing fields and the    *)
(* store are unchanged, nothing is finalized, and the warning of line 258    *)
(* is all the run shows for it.                                              *)
C18_BlankSubmitRejected ==
    [][(SubmitStep /\ ~NonBlank(user_input)) =>
          /\ UNCHANGED <<teacher_data, ongoing_record, missing_fields>>
          /\ pc' = "idle"
          /\ page'.warning \in {"blank", ""}
          /\ page'.listed = <<>>
          /\ ~page'.success /\ IsNone(page'.gemini_reply)
      ]_vars

\* a text of a newline alone was submitted on the empty record, which still
\* has no date
C18_Witness ==
    /\ ~submit_clicked
    /\ user_input = <<LineBlank, LineBlank>>
    /\ page.warning = "blank"
    /\ ongoing_record = EmptyRecord
    /\ IsNone(ongoing_record.date_str)

====
